---- MODULE Spec2Model ----
(***************************************************************************)
(* Mora Jai box: the 3x3 tile grid and its ten press rules, the Puzzle     *)
(* with its four corner locks, the breadth-first solver and the random     *)
(* generator (puzzle/src/puzzle.rs, puzzle/src/solver.rs).                 *)
(***************************************************************************)
EXTENDS Integers, Sequences, FiniteSets, TLC

VARIABLES pc, goals, corners, original, state, ctor, lastOp, prev, solution, bfs,
          trail, stdin, log, driven

vars == <<pc, goals, corners, original, state, ctor, lastOp, prev, solution, bfs,
          trail, stdin, log, driven>>

(***************************************************************************)
(* Color (puzzle.rs:4-16)                                                  *)
(***************************************************************************)
Color == {"Gray", "White", "Black", "Red", "Orange", "Green", "Yellow",
          "Violet", "Pink", "Blue"}

NUM_VARIANTS == 10

(***************************************************************************)
(* Grid (puzzle.rs:46-281).  A grid is the array colors[0..8], kept here   *)
(* as a sequence of 9 colours; the cell (row, col) is colors[row*3 + col]. *)
(***************************************************************************)
\* valid_coord without the test of the column
valid_coord_rows_only(row, col) == row < 3 /\ row >= 0

valid_coord(row, col) == row < 3 /\ col < 3 /\ row >= 0 /\ col >= 0

idx(row, col) == row * 3 + col + 1

get(grid, row, col) == grid[idx(row, col)]

\* Grid::get aborts: the test of valid_coord, and the bounds check of
\* self.colors[idx]
get_panics(row, col) == ~valid_coord(row, col) \/ idx(row, col) > 9

from_rows(r2, r1, r0) ==
    <<r0[1], r0[2], r0[3], r1[1], r1[2], r1[3], r2[1], r2[2], r2[3]>>

\* Grid::is_solved: the four corner tiles against goals[0..3]
grid_is_solved(grid, gs) ==
    /\ get(grid, 2, 0) = gs[1]
    /\ get(grid, 2, 2) = gs[2]
    /\ get(grid, 0, 0) = gs[3]
    /\ get(grid, 0, 2) = gs[4]

\* the eight offsets of neighbours_clockwise, in the order of the source
offsets == << <<1, 0>>, <<1, -1>>, <<0, -1>>, <<-1, -1>>,
             <<-1, 0>>, <<-1, 1>>, <<0, 1>>, <<1, 1>> >>

neighbours_clockwise(row, col) ==
    LET shifted == [i \in 1..8 |-> <<row + offsets[i][1], col + offsets[i][2]>>]
        InBounds(p) == valid_coord(p[1], p[2])
    IN  SelectSeq(shifted, InBounds)

\* the cells the White rule visits: the tile and its in-bounds orthogonal
\* neighbours
white_adjacent(row, col) ==
    {<<row, col>>}
        \cup (IF row > 0 THEN {<<row - 1, col>>} ELSE {})
        \cup (IF row < 2 THEN {<<row + 1, col>>} ELSE {})
        \cup (IF col > 0 THEN {<<row, col - 1>>} ELSE {})
        \cup (IF col < 2 THEN {<<row, col + 1>>} ELSE {})

\* the cells the Orange rule counts: the in-bounds orthogonal neighbours
orange_adjacent(row, col) ==
    (IF row > 0 THEN {<<row - 1, col>>} ELSE {})
        \cup (IF row < 2 THEN {<<row + 1, col>>} ELSE {})
        \cup (IF col > 0 THEN {<<row, col - 1>>} ELSE {})
        \cup (IF col < 2 THEN {<<row, col + 1>>} ELSE {})

\* position of the cell p in the sequence s of distinct cells, 0 if absent
pos_in(s, p) ==
    IF \E i \in 1..Len(s) : s[i] = p
    THEN CHOOSE i \in 1..Len(s) : s[i] = p
    ELSE 0

\* the White arm without the pressed tile among the toggled cells
white_rule_without_self(grid, row, col) ==
    [i \in 1..9 |->
        IF \E p \in white_adjacent(row, col) \ {<<row, col>>} : idx(p[1], p[2]) = i
        THEN (CASE grid[i] = "White" -> "Gray"
                [] grid[i] = "Gray" -> "White"
                [] OTHER -> grid[i])
        ELSE grid[i]]

\* the White arm: the tile and its orthogonal neighbours toggle White/Gray
white_rule(grid, row, col) ==
    [i \in 1..9 |->
        IF \E p \in white_adjacent(row, col) : idx(p[1], p[2]) = i
        THEN (CASE grid[i] = "White" -> "Gray"
                [] grid[i] = "Gray" -> "White"
                [] OTHER -> grid[i])
        ELSE grid[i]]

\* the Black arm rotating to the left: copy[row][col] = self[row][(col + 1) % 3]
black_rule_rotates_left(grid, row, col) ==
    [i \in 1..9 |->
        IF \E c \in 0..2 : idx(row, c) = i
        THEN LET c == CHOOSE c \in 0..2 : idx(row, c) = i
             IN  get(grid, row, (c + 1) % 3)
        ELSE grid[i]]

\* the Black arm: copy[row][(col + 1) % 3] = self[row][col] for col in 0..3
black_rule(grid, row, col) ==
    [i \in 1..9 |->
        IF \E c \in 0..2 : idx(row, (c + 1) % 3) = i
        THEN LET c == CHOOSE c \in 0..2 : idx(row, (c + 1) % 3) = i
             IN  get(grid, row, c)
        ELSE grid[i]]

\* the Red arm recolouring in two passes, so that a White tile ends Red
red_rule_in_two_passes(grid, row, col) ==
    [i \in 1..9 |->
        CASE grid[i] = "Black" -> "Red"
          [] grid[i] = "White" -> "Red"
          [] OTHER -> grid[i]]

\* the Red arm: every Black becomes Red and every White becomes Black
red_rule(grid, row, col) ==
    [i \in 1..9 |->
        CASE grid[i] = "Black" -> "Red"
          [] grid[i] = "White" -> "Black"
          [] OTHER -> grid[i]]

\* the Orange arm taking one of the colours at the maximum when several tie
orange_rule_picks_on_tie(grid, row, col) ==
    LET adjacent == orange_adjacent(row, col)
        counts(c) == Cardinality({p \in adjacent : get(grid, p[1], p[2]) = c})
        present == {get(grid, p[1], p[2]) : p \in adjacent}
        max == CHOOSE m \in {counts(c) : c \in present} :
                  \A c \in present : counts(c) <= m
        max_colors == {c \in present : counts(c) = max}
    IN  IF Cardinality(max_colors) = 1
        THEN [grid EXCEPT ![idx(row, col)] = CHOOSE c \in max_colors : TRUE]
        ELSE [grid EXCEPT ![idx(row, col)] =
                 CHOOSE c \in max_colors : c # get(grid, row, col)]

\* the Orange arm: the tile takes the colour with the unique maximum count
\* among its orthogonal neighbours, if there is one
orange_rule(grid, row, col) ==
    LET adjacent == orange_adjacent(row, col)
        counts(c) == Cardinality({p \in adjacent : get(grid, p[1], p[2]) = c})
        present == {get(grid, p[1], p[2]) : p \in adjacent}
        max == CHOOSE m \in {counts(c) : c \in present} :
                  \A c \in present : counts(c) <= m
        max_colors == {c \in present : counts(c) = max}
    IN  IF Cardinality(max_colors) = 1
        THEN [grid EXCEPT ![idx(row, col)] = CHOOSE c \in max_colors : TRUE]
        ELSE grid

\* the Green arm: swap with the opposite tile
green_rule(grid, row, col) ==
    LET opposing_row == 2 - row
        opposing_col == 2 - col
    IN  [grid EXCEPT ![idx(opposing_row, opposing_col)] = get(grid, row, col),
                     ![idx(row, col)] = get(grid, opposing_row, opposing_col)]

\* the Yellow arm wrapping from the top row to the bottom row
yellow_rule_wraps_at_top(grid, row, col) ==
    [grid EXCEPT ![idx((row + 1) % 3, col)] = get(grid, row, col),
                 ![idx(row, col)] = get(grid, (row + 1) % 3, col)]

\* the Yellow arm: swap with the tile above, nothing at the top
yellow_rule(grid, row, col) ==
    IF row < 2
    THEN [grid EXCEPT ![idx(row + 1, col)] = get(grid, row, col),
                      ![idx(row, col)] = get(grid, row + 1, col)]
    ELSE grid

\* the Violet arm: swap with the tile below, nothing at the bottom
violet_rule(grid, row, col) ==
    IF row > 0
    THEN [grid EXCEPT ![idx(row - 1, col)] = get(grid, row, col),
                      ![idx(row, col)] = get(grid, row - 1, col)]
    ELSE grid

\* the Pink arm rotating the other way: neighbours[k + 1] takes the old colour
\* of neighbours[k]
pink_rule_counter_clockwise(grid, row, col) ==
    LET neighbours == neighbours_clockwise(row, col)
        n == Len(neighbours)
    IN  [i \in 1..9 |->
            LET k == pos_in(neighbours, <<(i - 1) \div 3, (i - 1) % 3>>)
            IN  IF k = 0 THEN grid[i]
                ELSE LET src == neighbours[IF k = 1 THEN n ELSE k - 1]
                     IN  get(grid, src[1], src[2])]

\* the Pink arm: neighbours[k] takes the old colour of neighbours[k + 1],
\* the last one that of neighbours[0]
pink_rule(grid, row, col) ==
    LET neighbours == neighbours_clockwise(row, col)
        n == Len(neighbours)
    IN  [i \in 1..9 |->
            LET k == pos_in(neighbours, <<(i - 1) \div 3, (i - 1) % 3>>)
            IN  IF k = 0 THEN grid[i]
                ELSE LET src == neighbours[IF k = n THEN 1 ELSE k + 1]
                     IN  get(grid, src[1], src[2])]

\* the arms with the Gray arm toggling like the White arm
plain_rule_gray_toggles(grid, color, row, col) ==
    CASE color = "Gray" -> white_rule(grid, row, col)
      [] color = "White" -> white_rule(grid, row, col)
      [] color = "Black" -> black_rule(grid, row, col)
      [] color = "Red" -> red_rule(grid, row, col)
      [] color = "Orange" -> orange_rule(grid, row, col)
      [] color = "Green" -> green_rule(grid, row, col)
      [] color = "Yellow" -> yellow_rule(grid, row, col)
      [] color = "Violet" -> violet_rule(grid, row, col)
      [] color = "Pink" -> pink_rule(grid, row, col)

\* the arms of apply_color that do not call apply_color again
plain_rule(grid, color, row, col) ==
    CASE color = "Gray" -> grid
      [] color = "White" -> white_rule(grid, row, col)
      [] color = "Black" -> black_rule(grid, row, col)
      [] color = "Red" -> red_rule(grid, row, col)
      [] color = "Orange" -> orange_rule(grid, row, col)
      [] color = "Green" -> green_rule(grid, row, col)
      [] color = "Yellow" -> yellow_rule(grid, row, col)
      [] color = "Violet" -> violet_rule(grid, row, col)
      [] color = "Pink" -> pink_rule(grid, row, col)

\* the Blue arm reading the tile below the centre
middle_color_below_centre(grid) == get(grid, 0, 1)

\* the colour the Blue arm reads: self.get(1, 1)
middle_color(grid) == get(grid, 1, 1)

\* apply_color with the Blue arm applying the centre's rule at the centre
RECURSIVE apply_color_entered_at_centre(_, _, _, _)
apply_color_entered_at_centre(grid, color, row, col) ==
    IF color = "Blue"
    THEN IF middle_color(grid) # "Blue"
         THEN LET inner == apply_color_entered_at_centre(grid, middle_color(grid), 1, 1)
              IN  [grid |-> inner.grid, entered |-> <<color>> \o inner.entered]
         ELSE [grid |-> grid, entered |-> <<color>>]
    ELSE [grid |-> plain_rule(grid, color, row, col), entered |-> <<color>>]

\* apply_color with the grid it returns and the colours it was entered with,
\* outermost call first
RECURSIVE apply_color_entered(_, _, _, _)
apply_color_entered(grid, color, row, col) ==
    IF color = "Blue"
    THEN IF middle_color(grid) # "Blue"
         THEN LET inner == apply_color_entered(grid, middle_color(grid), row, col)
              IN  [grid |-> inner.grid, entered |-> <<color>> \o inner.entered]
         ELSE [grid |-> grid, entered |-> <<color>>]
    ELSE [grid |-> plain_rule(grid, color, row, col), entered |-> <<color>>]

apply_color(grid, color, row, col) == apply_color_entered(grid, color, row, col).grid

press(grid, row, col) == apply_color(grid, get(grid, row, col), row, col)

\* Grid::press aborts in its first statement, self.get(row, col)
press_panics(row, col) == get_panics(row, col)

(***************************************************************************)
(* Corner and Puzzle (puzzle.rs:283-387).  goals is indexed NW, NE, SW, SE *)
(* by goal(); corners is indexed SW, NW, SE, NE by get_corner().           *)
(***************************************************************************)
Corner == {"NE", "SE", "SW", "NW"}

\* index into goals (1-based) chosen by Puzzle::goal
goal_index(corner) ==
    CASE corner = "NW" -> 1
      [] corner = "NE" -> 2
      [] corner = "SW" -> 3
      [] corner = "SE" -> 4

\* index into corners (1-based) chosen by Puzzle::get_corner / get_corner_mut
corner_index(corner) ==
    CASE corner = "SW" -> 1
      [] corner = "NW" -> 2
      [] corner = "SE" -> 3
      [] corner = "NE" -> 4

goal(gs, corner) == gs[goal_index(corner)]

get_corner(cs, corner) == cs[corner_index(corner)]

\* corner_to_tile with the rows of the layout read upside down
corner_to_tile_flipped(corner) ==
    CASE corner = "NE" -> <<0, 2>>
      [] corner = "SE" -> <<2, 2>>
      [] corner = "SW" -> <<2, 0>>
      [] corner = "NW" -> <<0, 0>>

corner_to_tile(corner) ==
    CASE corner = "NE" -> <<2, 2>>
      [] corner = "SE" -> <<0, 2>>
      [] corner = "SW" -> <<0, 0>>
      [] corner = "NW" -> <<2, 0>>

get_tile(grid, row, col) == get(grid, row, col)

\* Puzzle::get_tile aborts in Grid::get
get_tile_panics(row, col) == get_panics(row, col)

\* Puzzle::press_tile aborts in its first statement, self.state.press(row, col),
\* before the assignment to self.state
press_tile_panics(row, col) == press_panics(row, col)

\* Puzzle::is_solved: the two arrays compared element by element
is_solved(cs, gs) == cs = gs

AllGray == <<"Gray", "Gray", "Gray", "Gray">>

\* the corner list of press_tile with SW left out
press_tile_order_without_sw == <<"NE", "SE", "NW", "NW">>

\* the order in which press_tile visits the corners
press_tile_order == <<"NE", "SE", "NW", "SW">>

\* the loop of press_tile over order[k..4], on the already pressed grid
\* the loop of press_tile with get_corner_mut indexing corners the way goal
\* indexes goals
RECURSIVE revoke_corners_by_goal_index(_, _, _)
revoke_corners_by_goal_index(cs, grid, k) ==
    IF k > Len(press_tile_order) THEN cs
    ELSE LET corner == press_tile_order[k]
             t == corner_to_tile(corner)
             next == IF get_tile(grid, t[1], t[2]) # get_corner(cs, corner)
                     THEN [cs EXCEPT ![goal_index(corner)] = "Gray"]
                     ELSE cs
         IN  revoke_corners_by_goal_index(next, grid, k + 1)

RECURSIVE revoke_corners(_, _, _)
revoke_corners(cs, grid, k) ==
    IF k > Len(press_tile_order) THEN cs
    ELSE LET corner == press_tile_order[k]
             t == corner_to_tile(corner)
             next == IF get_tile(grid, t[1], t[2]) # get_corner(cs, corner)
                     THEN [cs EXCEPT ![corner_index(corner)] = "Gray"]
                     ELSE cs
         IN  revoke_corners(next, grid, k + 1)

(***************************************************************************)
(* solve (solver.rs:14-44).  An Option is a record: some = FALSE is None.  *)
(***************************************************************************)
None == [some |-> FALSE, path |-> <<>>]

Some(path) == [some |-> TRUE, path |-> path]

\* successors with the columns enumerated in the outer loop
successors_col_major(grid, path) ==
    [k \in 1..9 |->
        LET col == (k - 1) \div 3
            row == (k - 1) % 3
        IN  [grid |-> press(grid, row, col), path |-> Append(path, <<row, col>>)]]

\* the nine (new_grid, new_path) entries pushed for a dequeued entry, in the
\* order row 0..2, col 0..2
successors(grid, path) ==
    [k \in 1..9 |->
        LET row == (k - 1) \div 3
            col == (k - 1) % 3
        IN  [grid |-> press(grid, row, col), path |-> Append(path, <<row, col>>)]]

\* the state of the search before the first iteration
bfs_init(grid) ==
    [queue |-> <<[grid |-> grid, path |-> <<>>]>>, seen |-> {},
     result |-> None, done |-> FALSE]

\* bfs_step with the frontier used as a stack: new entries go to the front
bfs_step_lifo(gs, b) ==
    IF b.queue = <<>>
    THEN [b EXCEPT !.result = None, !.done = TRUE]
    ELSE LET e == Head(b.queue)
             rest == Tail(b.queue)
         IN  IF e.grid \in b.seen
             THEN [b EXCEPT !.queue = rest]
             ELSE IF grid_is_solved(e.grid, gs)
                  THEN [queue |-> rest, seen |-> b.seen \cup {e.grid},
                        result |-> Some(e.path), done |-> TRUE]
                  ELSE [queue |-> successors(e.grid, e.path) \o rest,
                        seen |-> b.seen \cup {e.grid},
                        result |-> None, done |-> FALSE]

\* bfs_step leaving the loop, instead of continuing, on an already seen grid
bfs_step_break_on_seen(gs, b) ==
    IF b.queue = <<>>
    THEN [b EXCEPT !.result = None, !.done = TRUE]
    ELSE LET e == Head(b.queue)
             rest == Tail(b.queue)
         IN  IF e.grid \in b.seen
             THEN [b EXCEPT !.queue = rest, !.result = None, !.done = TRUE]
             ELSE IF grid_is_solved(e.grid, gs)
                  THEN [queue |-> rest, seen |-> b.seen \cup {e.grid},
                        result |-> Some(e.path), done |-> TRUE]
                  ELSE [queue |-> rest \o successors(e.grid, e.path),
                        seen |-> b.seen \cup {e.grid},
                        result |-> None, done |-> FALSE]

\* one evaluation of the while-let condition and, if an entry was popped,
\* of the loop body
bfs_step(gs, b) ==
    IF b.queue = <<>>
    THEN [b EXCEPT !.result = None, !.done = TRUE]
    ELSE LET e == Head(b.queue)
             rest == Tail(b.queue)
         IN  IF e.grid \in b.seen
             THEN [b EXCEPT !.queue = rest]
             ELSE IF grid_is_solved(e.grid, gs)
                  THEN [queue |-> rest, seen |-> b.seen \cup {e.grid},
                        result |-> Some(e.path), done |-> TRUE]
                  ELSE [queue |-> rest \o successors(e.grid, e.path),
                        seen |-> b.seen \cup {e.grid},
                        result |-> None, done |-> FALSE]

\* the loop guard: no further iteration once solve has returned
bfs_iter(gs, b) == IF b.done THEN b ELSE bfs_step(gs, b)

bfs_iter4(gs, b) == bfs_iter(gs, bfs_iter(gs, bfs_iter(gs, bfs_iter(gs, b))))

bfs_iter16(gs, b) == bfs_iter4(gs, bfs_iter4(gs, bfs_iter4(gs, bfs_iter4(gs, b))))

\* the while-let loop run to its return, unfolded sixteen iterations at a time
RECURSIVE bfs_run(_, _)
bfs_run(gs, b) ==
    LET b1 == bfs_iter(gs, b)
        b16 == bfs_iter16(gs, b1)
    IN  IF b1.done THEN b1.result ELSE bfs_run(gs, b16)

solve(gs, grid) == bfs_run(gs, bfs_init(grid))

(***************************************************************************)
(* The command line (mora-jai-cli/src/main.rs).  A line is a sequence of   *)
(* characters, each a string of length one; an Option is a record whose    *)
(* field some tells Some from None.                                        *)
(***************************************************************************)
char_to_color(c) ==
    CASE c = "-" -> [some |-> TRUE, color |-> "Gray"]
      [] c = "w" -> [some |-> TRUE, color |-> "White"]
      [] c = "k" -> [some |-> TRUE, color |-> "Black"]
      [] c = "r" -> [some |-> TRUE, color |-> "Red"]
      [] c = "o" -> [some |-> TRUE, color |-> "Orange"]
      [] c = "g" -> [some |-> TRUE, color |-> "Green"]
      [] c = "y" -> [some |-> TRUE, color |-> "Yellow"]
      [] c = "v" -> [some |-> TRUE, color |-> "Violet"]
      [] c = "p" -> [some |-> TRUE, color |-> "Pink"]
      [] c = "b" -> [some |-> TRUE, color |-> "Blue"]
      [] OTHER -> [some |-> FALSE]

\* parse_puzzle: the thirteen colors.next()?? in the order of the source; the
\* i-th returns None when the line has ended or its i-th character has no
\* colour, and nothing reads the iterator after the thirteenth
parse_puzzle(s) ==
    LET colors == [i \in 1..Len(s) |-> char_to_color(s[i])]
        fails(i) == i > Len(s) \/ ~colors[i].some
        next(i) == colors[i].color
    IN  IF \E i \in 1..13 : fails(i)
        THEN [some |-> FALSE]
        ELSE [some |-> TRUE,
              goals |-> <<next(1), next(2), next(3), next(4)>>,
              grid |-> from_rows(<<next(5), next(6), next(7)>>,
                                 <<next(8), next(9), next(10)>>,
                                 <<next(11), next(12), next(13)>>)]

(***************************************************************************)
(* Inputs.  Grids are the first NumGrids grids of Fixtures.  A puzzle is    *)
(* built with one of the first NumGoals goal arrays of GoalFixtures; the   *)
(* search is also run on every goal array over the first NumGoalColors     *)
(* colours of GoalPalette.                                                 *)
(***************************************************************************)
NumGrids == 4

NumGoalColors == 3

NumGoals == 5

GoalPalette == <<"Gray", "White", "Black", "Blue", "Red">>

\* goal arrays in the order of Puzzle::goal: NW, NE, SW, SE
GoalFixtures ==
    << <<"Black", "Black", "Black", "Black">>,
       <<"Black", "White", "Black", "Black">>,
       <<"White", "White", "White", "White">>,
       <<"Gray", "Black", "Black", "Black">>,
       <<"Gray", "Gray", "Gray", "Gray">>,
       <<"White", "Black", "Black", "White">> >>

Fixtures ==
    << from_rows(<<"Black", "White", "Black">>,
                 <<"Blue", "Blue", "Blue">>,
                 <<"Black", "White", "Black">>),
       \* tests::gray_works
       from_rows(<<"Gray", "Gray", "Gray">>,
                 <<"Gray", "Gray", "Gray">>,
                 <<"Gray", "Gray", "Gray">>),
       \* tests::blue_works
       from_rows(<<"Blue", "Gray", "Gray">>,
                 <<"Gray", "Black", "Gray">>,
                 <<"Gray", "Gray", "Gray">>),
       from_rows(<<"Gray", "Black", "White">>,
                 <<"Gray", "Blue", "Blue">>,
                 <<"Black", "Black", "Black">>),
       from_rows(<<"White", "Black", "Gray">>,
                 <<"Blue", "Blue", "White">>,
                 <<"Black", "Black", "Black">>) >>

\* the row and col arguments a caller passes: the valid 0, 1, 2 and the
\* invalid 3
ArgCoords == 0..3

\* the grid and goals of solver.rs tests::solve_works
SolveWorksGrid ==
    from_rows(<<"White", "White", "White">>,
              <<"White", "Gray", "White">>,
              <<"Gray", "Gray", "White">>)

SolveWorksGoals == <<"White", "White", "White", "White">>

Grids == {Fixtures[i] : i \in 1..NumGrids}

GoalColors == {GoalPalette[i] : i \in 1..NumGoalColors}

GoalArrays == {<<a, b, c, d>> : a \in GoalColors, b \in GoalColors,
                                c \in GoalColors, d \in GoalColors}

PuzzleGoals == {GoalFixtures[i] : i \in 1..NumGoals}

SolveInputs == (GoalArrays \X Grids) \cup {<<SolveWorksGoals, SolveWorksGrid>>}

\* solve on every drawn input, evaluated once: the pairs <<input, result>>
SolveTable == {<<in, solve(in[1], in[2])>> : in \in PuzzleGoals \X Grids}

\* the result of solve(gs, grid) for a drawn input
solve_of(gs, grid) == (CHOOSE e \in SolveTable : e[1] = <<gs, grid>>)[2]

(***************************************************************************)
(* State.  goals, corners, original, state are the fields of the Puzzle;   *)
(* pc is the caller's position; ctor, lastOp and prev record how the       *)
(* puzzle was made, the last call and the fields before it; solution is    *)
(* the value returned by the last Puzzle::solve; bfs is the search of a    *)
(* running solve; trail lists the presses made on a bare Grid, each with   *)
(* the grid it was made on and the colours apply_color was entered with.   *)
(* stdin is the input of solve_puzzles, the Ok or Err of each line and the *)
(* number of lines read; log has one entry for each line solve_puzzle has  *)
(* returned from;                                                          *)
(* driven lists the calls a caller has made on a puzzle it follows the     *)
(* solution of.                                                            *)
(***************************************************************************)
NoGrid == from_rows(<<"Gray", "Gray", "Gray">>, <<"Gray", "Gray", "Gray">>,
                    <<"Gray", "Gray", "Gray">>)

\* a standard input with no line
NoInput == [lines |-> <<>>, pos |-> 0]

NoOp == [op |-> "none", row |-> 0, col |-> 0, corner |-> "none"]

BfsIdle == [queue |-> <<>>, seen |-> {}, result |-> None, done |-> FALSE]

Init ==
    /\ pc = "start"
    /\ goals = AllGray
    /\ corners = AllGray
    /\ original = NoGrid
    /\ state = NoGrid
    /\ ctor = "none"
    /\ lastOp = NoOp
    /\ prev = [corners |-> AllGray, state |-> NoGrid]
    /\ solution = None
    /\ bfs = BfsIdle
    /\ trail = <<>>
    /\ stdin = NoInput
    /\ log = <<>>
    /\ driven = <<>>

\* Puzzle::new(goals, grid), reached from parse_puzzle
New(gs, grid) ==
    /\ pc = "start"
    /\ pc' = "ready"
    /\ goals' = gs
    /\ corners' = AllGray
    /\ original' = grid
    /\ state' = grid
    /\ ctor' = "new"
    /\ lastOp' = [NoOp EXCEPT !.op = "new"]
    /\ prev' = [corners |-> corners, state |-> state]
    /\ UNCHANGED <<solution, bfs, trail, stdin, log, driven>>

\* new_random without the test for a Gray goal
NewRandomIterNoGrayTest(gs, colors) ==
    /\ pc \in {"start", "generating"}
    /\ IF solve_of(gs, colors).some
       THEN /\ pc' = "ready"
            /\ goals' = gs
            /\ corners' = AllGray
            /\ original' = colors
            /\ state' = colors
            /\ ctor' = "new_random"
            /\ lastOp' = [NoOp EXCEPT !.op = "new_random"]
            /\ prev' = [corners |-> corners, state |-> state]
       ELSE /\ pc' = "generating"
            /\ UNCHANGED <<goals, corners, original, state, ctor, lastOp, prev>>
    /\ UNCHANGED <<solution, bfs, trail, stdin, log, driven>>

\* one iteration of the loop of Puzzle::new_random with the draws gs, colors
NewRandomIter(gs, colors) ==
    /\ pc \in {"start", "generating"}
    /\ IF \E i \in 1..4 : gs[i] = "Gray"
       THEN /\ pc' = "generating"
            /\ UNCHANGED <<goals, corners, original, state, ctor, lastOp, prev>>
       ELSE IF solve_of(gs, colors).some
            THEN /\ pc' = "ready"
                 /\ goals' = gs
                 /\ corners' = AllGray
                 /\ original' = colors
                 /\ state' = colors
                 /\ ctor' = "new_random"
                 /\ lastOp' = [NoOp EXCEPT !.op = "new_random"]
                 /\ prev' = [corners |-> corners, state |-> state]
            ELSE /\ pc' = "generating"
                 /\ UNCHANGED <<goals, corners, original, state, ctor, lastOp, prev>>
    /\ UNCHANGED <<solution, bfs, trail, stdin, log, driven>>

\* Puzzle::press_tile(row, col)
PressTile(row, col) ==
    /\ pc = "ready"
    /\ IF press_tile_panics(row, col)
       THEN /\ pc' = "panicked"
            /\ state' = state
            /\ corners' = corners
       ELSE /\ pc' = pc
            /\ LET pressed == press(state, row, col)
               IN  /\ state' = pressed
                   /\ corners' = revoke_corners(corners, pressed, 1)
    /\ lastOp' = [NoOp EXCEPT !.op = "press_tile", !.row = row, !.col = col]
    /\ prev' = [corners |-> corners, state |-> state]
    /\ UNCHANGED <<goals, original, ctor, solution, bfs, trail, stdin, log, driven>>

\* Puzzle::reset: the fields corners and state after it
reset(orig) == [corners |-> AllGray, state |-> orig]

\* press_corner treating a wrong corner as a no-op
PressCornerNoReset(corner) ==
    /\ pc = "ready"
    /\ LET t == corner_to_tile(corner)
           color == get_tile(state, t[1], t[2])
       IN  IF color = goal(goals, corner)
           THEN /\ corners' = [corners EXCEPT ![corner_index(corner)] = color]
                /\ state' = state
           ELSE /\ corners' = corners
                /\ state' = state
    /\ lastOp' = [NoOp EXCEPT !.op = "press_corner", !.corner = corner]
    /\ prev' = [corners |-> corners, state |-> state]
    /\ UNCHANGED <<pc, goals, original, ctor, solution, bfs, trail, stdin, log, driven>>

\* press_corner locking the tile colour without comparing it to the goal
PressCornerAlwaysLocks(corner) ==
    /\ pc = "ready"
    /\ LET t == corner_to_tile(corner)
           color == get_tile(state, t[1], t[2])
       IN  /\ corners' = [corners EXCEPT ![corner_index(corner)] = color]
           /\ state' = state
    /\ lastOp' = [NoOp EXCEPT !.op = "press_corner", !.corner = corner]
    /\ prev' = [corners |-> corners, state |-> state]
    /\ UNCHANGED <<pc, goals, original, ctor, solution, bfs, trail, stdin, log, driven>>

\* press_corner whose reset exchanges state and original instead of cloning
PressCornerSwapsOriginal(corner) ==
    /\ pc = "ready"
    /\ LET t == corner_to_tile(corner)
           color == get_tile(state, t[1], t[2])
       IN  IF color = goal(goals, corner)
           THEN /\ corners' = [corners EXCEPT ![corner_index(corner)] = color]
                /\ state' = state
                /\ original' = original
           ELSE /\ corners' = AllGray
                /\ state' = original
                /\ original' = state
    /\ lastOp' = [NoOp EXCEPT !.op = "press_corner", !.corner = corner]
    /\ prev' = [corners |-> corners, state |-> state]
    /\ UNCHANGED <<pc, goals, ctor, solution, bfs, trail, stdin, log, driven>>

\* Puzzle::press_corner(corner)
PressCorner(corner) ==
    /\ pc = "ready"
    /\ LET t == corner_to_tile(corner)
           color == get_tile(state, t[1], t[2])
       IN  IF color = goal(goals, corner)
           THEN /\ corners' = [corners EXCEPT ![corner_index(corner)] = color]
                /\ state' = state
           ELSE /\ corners' = reset(original).corners
                /\ state' = reset(original).state
    /\ lastOp' = [NoOp EXCEPT !.op = "press_corner", !.corner = corner]
    /\ prev' = [corners |-> corners, state |-> state]
    /\ UNCHANGED <<pc, goals, original, ctor, solution, bfs, trail, stdin, log, driven>>

\* Puzzle::solve(&self)
Solve ==
    /\ pc = "ready"
    /\ solution' = solve_of(goals, original)
    /\ lastOp' = [NoOp EXCEPT !.op = "solve"]
    /\ prev' = [corners |-> corners, state |-> state]
    /\ UNCHANGED <<pc, goals, corners, original, state, ctor, bfs, trail, stdin, log, driven>>

Next ==
    \/ \E gs \in PuzzleGoals, grid \in Grids : New(gs, grid)
    \/ \E gs \in PuzzleGoals, colors \in Grids : NewRandomIter(gs, colors)
    \/ \E row \in ArgCoords, col \in ArgCoords : PressTile(row, col)
    \/ \E corner \in Corner : PressCorner(corner)
    \/ Solve

Spec == Init /\ [][Next]_vars

(***************************************************************************)
(* The search of solve, one loop iteration per step, on a puzzle just      *)
(* built by parse_puzzle (main.rs solve_puzzle).                           *)
(***************************************************************************)
SolveInit ==
    /\ \E in \in SolveInputs :
          /\ goals = in[1]
          /\ original = in[2]
          /\ state = in[2]
          /\ bfs = bfs_init(in[2])
    /\ pc = "solving"
    /\ corners = AllGray
    /\ ctor = "new"
    /\ lastOp = [NoOp EXCEPT !.op = "solve"]
    /\ prev = [corners |-> AllGray, state |-> state]
    /\ solution = None
    /\ trail = <<>>
    /\ stdin = NoInput
    /\ log = <<>>
    /\ driven = <<>>

SolveIter ==
    /\ pc = "solving"
    /\ bfs' = bfs_step(goals, bfs)
    /\ pc' = IF bfs'.done THEN "ready" ELSE "solving"
    /\ solution' = bfs'.result
    /\ UNCHANGED <<goals, corners, original, state, ctor, lastOp, prev, trail, stdin, log, driven>>

SolveNext == SolveIter

SolveSpec == SolveInit /\ [][SolveNext]_vars /\ WF_vars(SolveIter)

(***************************************************************************)
(* Grid::press on a bare Grid, as the tests of puzzle.rs call it: a grid   *)
(* is built with from_rows and pressed up to MaxPresses times, each press  *)
(* on the grid the one before returned.  The grids are the grids of the    *)
(* tests, and two boards with every colour put on every cell in turn.      *)
(***************************************************************************)
MaxPresses == 3

\* the grids built by the tests of puzzle.rs
PressTests ==
    { \* gray_works
      from_rows(<<"Gray", "Gray", "Gray">>,
                <<"Gray", "Gray", "Gray">>,
                <<"Gray", "Gray", "Gray">>),
      \* white_center_works
      from_rows(<<"Gray", "Gray", "Gray">>,
                <<"Gray", "White", "Gray">>,
                <<"Gray", "Gray", "Gray">>),
      \* white_corner_works
      from_rows(<<"Gray", "Gray", "Gray">>,
                <<"Gray", "Gray", "Gray">>,
                <<"White", "Gray", "Gray">>),
      \* black_works
      from_rows(<<"Gray", "Gray", "Gray">>,
                <<"Gray", "Gray", "Gray">>,
                <<"Black", "White", "Red">>),
      \* red_works
      from_rows(<<"White", "White", "White">>,
                <<"White", "Red", "Black">>,
                <<"Black", "Black", "Black">>),
      \* blue_works
      from_rows(<<"Blue", "Gray", "Gray">>,
                <<"Gray", "Black", "Gray">>,
                <<"Gray", "Gray", "Gray">>),
      \* blue_does_not_recurse_forever
      from_rows(<<"Blue", "Gray", "Gray">>,
                <<"Gray", "Blue", "Gray">>,
                <<"Gray", "Gray", "Gray">>) }

PressBoards ==
    { from_rows(<<"Blue", "White", "Gray">>,
                <<"White", "Gray", "Black">>,
                <<"Gray", "Blue", "White">>),
      from_rows(<<"Pink", "Red", "Black">>,
                <<"Yellow", "Blue", "White">>,
                <<"Violet", "Green", "Orange">>) }

PressGrids ==
    PressTests \cup {[b EXCEPT ![i] = x] : b \in PressBoards, i \in 1..9, x \in Color}

\* let grid = Grid::from_rows(..)
PressInit ==
    /\ pc = "grid"
    /\ state \in PressGrids
    /\ original = state
    /\ goals = AllGray
    /\ corners = AllGray
    /\ ctor = "from_rows"
    /\ lastOp = NoOp
    /\ prev = [corners |-> AllGray, state |-> state]
    /\ solution = None
    /\ bfs = BfsIdle
    /\ trail = <<>>
    /\ stdin = NoInput
    /\ log = <<>>
    /\ driven = <<>>

\* let new = grid.press(row, col)
GridPress(row, col) ==
    /\ pc = "grid"
    /\ Len(trail) < MaxPresses
    /\ ~press_panics(row, col)
    /\ state' = press(state, row, col)
    /\ trail' = Append(trail,
                   [row |-> row, col |-> col, before |-> state,
                    entered |-> apply_color_entered(state, get(state, row, col),
                                                    row, col).entered])
    /\ UNCHANGED <<pc, goals, corners, original, ctor, lastOp, prev, solution, bfs,
                   stdin, log, driven>>

PressNext == \E row \in 0..2, col \in 0..2 : GridPress(row, col)

PressSpec == PressInit /\ [][PressNext]_vars

(***************************************************************************)
(* solve_puzzles: the lines of standard input are handed to solve_puzzle   *)
(* one after the other.  A batch has up to MaxLines lines, drawn from four *)
(* well-formed lines and from lines made of them by cutting them short, by *)
(* putting a character without a colour in them, and by adding up to       *)
(* MaxExtra characters at their end; a line of the input may also be one   *)
(* that is not valid UTF-8.                                                *)
(***************************************************************************)
MaxLines == 2

MaxExtra == 2

\* well-formed lines: the puzzle of solver.rs tests::solve_works; nine Gray
\* tiles with Gray goals; a grid of nine colours whose corners are the goals
WellFormed ==
    { <<"w", "w", "w", "w", "w", "w", "w", "w", "-", "w", "-", "-", "w">>,
      <<"-", "-", "-", "-", "-", "-", "-", "-", "-", "-", "-", "-", "-">>,
      <<"p", "y", "g", "w", "p", "r", "y", "v", "b", "o", "g", "k", "w">> }

\* a well-formed line of a puzzle without a solution
Unsolvable == <<"r", "r", "r", "r", "-", "-", "-", "-", "-", "-", "-", "-", "-">>

\* n times the character w, the last one replaced by x when marked
Extra(n, marked) == [i \in 1..n |-> IF marked /\ i = n THEN "x" ELSE "w"]

BatchLines ==
    WellFormed \cup {Unsolvable}
        \cup {SubSeq(l, 1, n) : l \in WellFormed, n \in {0, 12}}
        \cup {[l EXCEPT ![i] = "x"] : l \in WellFormed, i \in {1, 13}}
        \cup {l \o Extra(n, m) : l \in WellFormed, n \in 1..MaxExtra, m \in BOOLEAN}

RECURSIVE SeqsUpTo(_, _)
SeqsUpTo(S, n) ==
    IF n = 0 THEN {<<>>}
    ELSE LET shorter == SeqsUpTo(S, n - 1)
         IN  shorter \cup {Append(q, x) : q \in shorter, x \in S}

\* what the iterator stdin.lock().lines() yields for one line: Ok(line), or
\* an Err for a line that is not valid UTF-8
Ok(s) == [ok |-> TRUE, line |-> s]

Err == [ok |-> FALSE]

BatchItems == {Ok(l) : l \in BatchLines} \cup {Err}

Batches == SeqsUpTo(BatchItems, MaxLines)

\* solve on the puzzle of every line that parses, evaluated once
BatchSolveTable ==
    {<<l, solve(parse_puzzle(l).goals, parse_puzzle(l).grid)>> :
        l \in {k \in BatchLines : parse_puzzle(k).some}}

BatchInit ==
    /\ pc = "batch"
    /\ \E lines \in Batches : stdin = [lines |-> lines, pos |-> 0]
    /\ log = <<>>
    /\ goals = AllGray
    /\ corners = AllGray
    /\ original = NoGrid
    /\ state = NoGrid
    /\ ctor = "none"
    /\ lastOp = NoOp
    /\ prev = [corners |-> AllGray, state |-> NoGrid]
    /\ solution = None
    /\ bfs = BfsIdle
    /\ trail = <<>>
    /\ driven = <<>>

\* one iteration of the loop of solve_puzzles: line.unwrap() panics on an Err,
\* otherwise solve_puzzle runs on the line and its error, if any, is printed
SolvePuzzleLine ==
    /\ pc = "batch"
    /\ stdin.pos < Len(stdin.lines)
    /\ stdin' = [stdin EXCEPT !.pos = stdin.pos + 1]
    /\ LET line == stdin.lines[stdin.pos + 1]
       IN  IF ~line.ok
           THEN /\ pc' = "panicked"
                /\ UNCHANGED <<goals, corners, original, state, ctor, lastOp, prev,
                               solution, log>>
           ELSE LET puzzle_str == line.line
                    puzzle == parse_puzzle(puzzle_str)
                IN  /\ pc' = pc
                    /\ IF ~puzzle.some
                       THEN /\ log' = Append(log,
                                   [line |-> puzzle_str, parsed |-> FALSE,
                                    result |-> "failed to parse puzzle"])
                            /\ UNCHANGED <<goals, corners, original, state, ctor,
                                           lastOp, prev, solution>>
                       ELSE LET found == (CHOOSE e \in BatchSolveTable :
                                              e[1] = puzzle_str)[2]
                            IN  /\ goals' = puzzle.goals
                                /\ corners' = AllGray
                                /\ original' = puzzle.grid
                                /\ state' = puzzle.grid
                                /\ ctor' = "new"
                                /\ lastOp' = [NoOp EXCEPT !.op = "solve"]
                                /\ prev' = [corners |-> AllGray, state |-> puzzle.grid]
                                /\ solution' = found
                                /\ log' = Append(log,
                                       [line |-> puzzle_str, parsed |-> TRUE,
                                        result |-> IF found.some THEN "Ok"
                                                   ELSE "puzzle should always have a solution"])
    /\ UNCHANGED <<bfs, trail, driven>>

\* the loop of solve_puzzles ends with the input and Ok(()) is returned
EndOfInput ==
    /\ pc = "batch"
    /\ stdin.pos = Len(stdin.lines)
    /\ pc' = "exit"
    /\ UNCHANGED <<goals, corners, original, state, ctor, lastOp, prev, solution, bfs,
                   trail, stdin, log, driven>>

BatchNext == SolvePuzzleLine \/ EndOfInput

BatchSpec == BatchInit /\ [][BatchNext]_vars

(***************************************************************************)
(* A caller that follows the solution: a puzzle is built with Puzzle::new, *)
(* solve is called on it, press_tile is called for each press of the path  *)
(* in order, and then press_corner once for each corner, in any order.     *)
(***************************************************************************)
DriveInit ==
    /\ pc = "driving"
    /\ \E gs \in PuzzleGoals, grid \in Grids :
          /\ goals = gs
          /\ original = grid
          /\ state = grid
          /\ solution = solve_of(gs, grid)
    /\ corners = AllGray
    /\ ctor = "new"
    /\ lastOp = [NoOp EXCEPT !.op = "solve"]
    /\ prev = [corners |-> AllGray, state |-> state]
    /\ bfs = BfsIdle
    /\ trail = <<>>
    /\ stdin = NoInput
    /\ log = <<>>
    /\ driven = <<>>

\* Puzzle::press_tile on the next press of the path
DrivePressTile ==
    /\ pc = "driving"
    /\ solution.some
    /\ Len(driven) < Len(solution.path)
    /\ LET row == solution.path[Len(driven) + 1][1]
           col == solution.path[Len(driven) + 1][2]
       IN  /\ IF press_tile_panics(row, col)
              THEN /\ pc' = "panicked"
                   /\ state' = state
                   /\ corners' = corners
              ELSE /\ pc' = pc
                   /\ LET pressed == press(state, row, col)
                      IN  /\ state' = pressed
                          /\ corners' = revoke_corners(corners, pressed, 1)
           /\ lastOp' = [NoOp EXCEPT !.op = "press_tile", !.row = row, !.col = col]
           /\ driven' = Append(driven, [op |-> "press_tile", row |-> row, col |-> col,
                                        corner |-> "none", reset |-> FALSE])
    /\ prev' = [corners |-> corners, state |-> state]
    /\ UNCHANGED <<goals, original, ctor, solution, bfs, trail, stdin, log>>

\* Puzzle::press_corner on a corner not pressed yet, after the path
DrivePressCorner(corner) ==
    /\ pc = "driving"
    /\ solution.some
    /\ Len(driven) >= Len(solution.path)
    /\ \A i \in 1..Len(driven) : driven[i].corner # corner
    /\ LET t == corner_to_tile(corner)
           color == get_tile(state, t[1], t[2])
       IN  /\ IF color = goal(goals, corner)
              THEN /\ corners' = [corners EXCEPT ![corner_index(corner)] = color]
                   /\ state' = state
              ELSE /\ corners' = reset(original).corners
                   /\ state' = reset(original).state
           /\ driven' = Append(driven, [op |-> "press_corner", row |-> 0, col |-> 0,
                                        corner |-> corner,
                                        reset |-> color # goal(goals, corner)])
    /\ lastOp' = [NoOp EXCEPT !.op = "press_corner", !.corner = corner]
    /\ prev' = [corners |-> corners, state |-> state]
    /\ UNCHANGED <<pc, goals, original, ctor, solution, bfs, trail, stdin, log>>

DriveNext == DrivePressTile \/ \E corner \in Corner : DrivePressCorner(corner)

DriveSpec == DriveInit /\ [][DriveNext]_vars

(***************************************************************************)
(* Properties of the Puzzle corner-lock layer, checked under Spec.         *)
(***************************************************************************)
\* the fixed tile of each corner as the specification gives it
FixedTile(corner) ==
    CASE corner = "NW" -> <<2, 0>>
      [] corner = "NE" -> <<2, 2>>
      [] corner = "SW" -> <<0, 0>>
      [] corner = "SE" -> <<0, 2>>

TileAt(grid, corner) == grid[FixedTile(corner)[1] * 3 + FixedTile(corner)[2] + 1]

Constructed == pc = "ready"

\* C1: in every reachable state of a Puzzle, is_solved() is true if and only
\* if for each of the four corners the lock reported by get_corner equals
\* the goal reported by goal.
C1_IsSolvedIffEveryLockEqualsGoal ==
    Constructed =>
        (is_solved(corners, goals)
            <=> \A c \in Corner : get_corner(corners, c) = goal(goals, c))

\* C2: press_corner(c) on a corner whose live tile differs from goal(c)
\* resets the whole puzzle: the live grid equals the original snapshot and
\* all four locks are Gray, whatever locks were held before.
C2_WrongCornerResetsPuzzle ==
    \A c \in Corner :
        (/\ Constructed
         /\ lastOp.op = "press_corner"
         /\ lastOp.corner = c
         /\ TileAt(prev.state, c) # goal(goals, c))
        => (/\ state = original
            /\ \A d \in Corner : get_corner(corners, d) = "Gray")

\* a wrong corner was pressed while a lock was held and the grid had moved
C2_Witness ==
    /\ Constructed
    /\ lastOp.op = "press_corner"
    /\ TileAt(prev.state, lastOp.corner) # goal(goals, lastOp.corner)
    /\ \E d \in Corner : get_corner(prev.corners, d) # "Gray"
    /\ prev.state # original

\* C3: after press_tile(row, col), the new lock of each corner c is the old
\* lock of c if the post-press live tile at c's fixed coordinate equals the
\* old lock, and Gray otherwise.
C3_PressTileRevokesMismatchedLocks ==
    (Constructed /\ lastOp.op = "press_tile") =>
        \A c \in Corner :
            get_corner(corners, c) =
                IF TileAt(state, c) = get_corner(prev.corners, c)
                THEN get_corner(prev.corners, c)
                ELSE "Gray"

\* a press_tile changed the colour under a locked corner and revoked that
\* lock while another corner kept its lock
C3_Witness ==
    /\ Constructed
    /\ lastOp.op = "press_tile"
    /\ \E c \in Corner :
          /\ get_corner(prev.corners, c) # "Gray"
          /\ TileAt(prev.state, c) # TileAt(state, c)
          /\ get_corner(corners, c) = "Gray"
    /\ \E d \in Corner : get_corner(corners, d) # "Gray"

\* C4: press_corner(c) on a corner whose live tile (NW=(2,0), NE=(2,2),
\* SW=(0,0), SE=(0,2)) equals goal(c) sets the lock of c to goal(c) and
\* leaves the live grid and the other three locks unchanged.
C4_RightCornerLocksOnlyThatCorner ==
    \A c \in Corner :
        (/\ Constructed
         /\ lastOp.op = "press_corner"
         /\ lastOp.corner = c
         /\ TileAt(prev.state, c) = goal(goals, c))
        => (/\ get_corner(corners, c) = goal(goals, c)
            /\ state = prev.state
            /\ \A d \in Corner \ {c} :
                  get_corner(corners, d) = get_corner(prev.corners, d))

\* a corner went from unlocked to locked on a non-Gray goal while another
\* corner was already locked and the grid differed from the original
C4_Witness ==
    /\ Constructed
    /\ lastOp.op = "press_corner"
    /\ TileAt(prev.state, lastOp.corner) = goal(goals, lastOp.corner)
    /\ goal(goals, lastOp.corner) # "Gray"
    /\ get_corner(prev.corners, lastOp.corner) = "Gray"
    /\ get_corner(corners, lastOp.corner) = goal(goals, lastOp.corner)
    /\ \E d \in Corner \ {lastOp.corner} : get_corner(prev.corners, d) # "Gray"
    /\ state # original

\* C5: in every reachable state of a Puzzle, the lock of each corner is
\* either Gray or that same corner's goal colour.
C5_LockIsGrayOrOwnGoal ==
    Constructed =>
        \A c \in Corner : get_corner(corners, c) \in {"Gray", goal(goals, c)}

\* two corners with different goals are both locked
C5_Witness ==
    /\ Constructed
    /\ \E c, d \in Corner :
          /\ goal(goals, c) # goal(goals, d)
          /\ get_corner(corners, c) = goal(goals, c)
          /\ get_corner(corners, d) = goal(goals, d)
          /\ get_corner(corners, c) # "Gray"
          /\ get_corner(corners, d) # "Gray"

\* C6: the original snapshot never changes after construction: no
\* press_tile, press_corner (wrong-corner resets included) or solve call
\* changes it, a press_tile that panics included.
C6_OriginalNeverChanges ==
    [][Constructed => (pc' \in {"ready", "panicked"} /\ original' = original)]_vars

\* a wrong-corner reset has restored a grid that had moved away from the
\* original, and solve has been called on this puzzle
C6_Witness ==
    /\ Constructed
    /\ lastOp.op = "press_corner"
    /\ TileAt(prev.state, lastOp.corner) # goal(goals, lastOp.corner)
    /\ prev.state # original
    /\ state = original
    /\ solution.some

(***************************************************************************)
(* Properties of solve, checked under SolveSpec, against a reachability    *)
(* relation computed without the search: the sets of grids reachable in    *)
(* exactly k presses and in any number of presses.                         *)
(***************************************************************************)
\* the corner tiles (2,0), (2,2), (0,0), (0,2) of a grid
CornerTiles(grid) == <<grid[7], grid[9], grid[1], grid[3]>>

IsGoalNode(grid, gs) == CornerTiles(grid) = gs

RECURSIVE ApplyPath(_, _)
ApplyPath(grid, path) ==
    IF path = <<>> THEN grid
    ELSE ApplyPath(press(grid, Head(path)[1], Head(path)[2]), Tail(path))

PressImage(S) == {press(g, r, c) : g \in S, r \in 0..2, c \in 0..2}

RECURSIVE ReachExactly(_, _)
ReachExactly(S, k) == IF k = 0 THEN S ELSE ReachExactly(PressImage(S), k - 1)

RECURSIVE ReachClosure(_)
ReachClosure(S) ==
    LET T == S \cup PressImage(S)
    IN  IF T = S THEN S ELSE ReachClosure(T)

Presses == {<<r, c>> : r \in 0..2, c \in 0..2}

\* the order of presses: row 0 to 2, then col 0 to 2
PressBefore(p, q) == p[1] * 3 + p[2] < q[1] * 3 + q[2]

Returned == pc = "ready" /\ bfs.done

\* C7: whenever solve(goals, grid) returns Some(path), applying the presses
\* of path in order to grid yields a grid whose corner tiles equal the
\* goals, and no strictly shorter press sequence reaches such a grid.
C7_SolutionReachesGoalAndIsShortest ==
    (Returned /\ solution.some) =>
        /\ IsGoalNode(ApplyPath(original, solution.path), goals)
        /\ \A k \in 0..(Len(solution.path) - 1) :
              \A g \in ReachExactly({original}, k) : ~IsGoalNode(g, goals)

\* solve has returned a path of at least three presses
C7_Witness ==
    /\ Returned
    /\ solution.some
    /\ Len(solution.path) >= 3
    /\ IsGoalNode(ApplyPath(original, solution.path), goals)

\* C8: solve always terminates, and it returns None if and only if no grid
\* reachable from the start grid by any press sequence is a goal node.
C8_TerminatesAndNoneIffUnreachable ==
    /\ <>Returned
    /\ [](Returned =>
            (~solution.some
                <=> \A g \in ReachClosure({original}) : ~IsGoalNode(g, goals)))

\* solve has returned None after exhausting an orbit of more than 20 grids
C8_Witness ==
    /\ Returned
    /\ ~solution.some
    /\ bfs.queue = <<>>
    /\ Cardinality(bfs.seen) > 20

\* C9: among all press sequences of the returned length that reach a goal
\* node, solve returns the smallest in lexicographic order of presses
\* (row 0 to 2, then col 0 to 2); for the fixture of tests::solve_works the
\* result is exactly [(0,2), (0,1)].
C9_SolutionIsLexicographicallyFirst ==
    (Returned /\ solution.some) =>
        /\ \A i \in 1..Len(solution.path) :
              \A q \in Presses :
                  PressBefore(q, solution.path[i]) =>
                      LET before == ApplyPath(original, SubSeq(solution.path, 1, i - 1))
                          after == press(before, q[1], q[2])
                      IN  \A g \in ReachExactly({after}, Len(solution.path) - i) :
                              ~IsGoalNode(g, goals)
        /\ (original = SolveWorksGrid /\ goals = SolveWorksGoals)
              => solution.path = << <<0, 2>>, <<0, 1>> >>

\* solve has returned a path while another press sequence of the same
\* length, later in the order, also reaches a goal node
C9_Witness ==
    /\ Returned
    /\ solution.some
    /\ \E i \in 1..Len(solution.path) :
          \E q \in Presses :
              /\ PressBefore(solution.path[i], q)
              /\ LET before == ApplyPath(original, SubSeq(solution.path, 1, i - 1))
                     after == press(before, q[1], q[2])
                 IN  \E g \in ReachExactly({after}, Len(solution.path) - i) :
                         IsGoalNode(g, goals)

(***************************************************************************)
(* Property of the generator, checked under Spec.                          *)
(***************************************************************************)
\* C10: every Puzzle returned by new_random has no Gray goal, has
\* solve(goals, original) returning Some, and starts with all four locks
\* Gray and the live grid equal to the original.
C10_NewRandomReturnsSolvableUnlockedPuzzle ==
    (Constructed /\ ctor = "new_random") =>
        /\ \A c \in Corner : goal(goals, c) # "Gray"
        /\ lastOp.op = "new_random" =>
              /\ solve(goals, original).some
              /\ \A c \in Corner : get_corner(corners, c) = "Gray"
              /\ state = original

\* new_random has just returned a puzzle whose goals are not all the same
\* colour
C10_Witness ==
    /\ Constructed
    /\ ctor = "new_random"
    /\ lastOp.op = "new_random"
    /\ \E c, d \in Corner : goal(goals, c) # goal(goals, d)
    /\ state = original

(***************************************************************************)
(* Properties of Grid::press, checked under PressSpec.  The effect of each *)
(* rule is stated cell by cell on the grid before and the grid after the   *)
(* press, with row 2 the top row of the board.                             *)
(***************************************************************************)
Cells == {<<r, c>> : r \in 0..2, c \in 0..2}

At(grid, p) == grid[p[1] * 3 + p[2] + 1]

Pressed == pc = "grid" /\ Len(trail) > 0

\* the i-th press of the trail: its cell, the colour pressed, the grid after
CellOf(i) == <<trail[i].row, trail[i].col>>

BeforeOf(i) == trail[i].before

AfterOf(i) == IF i = Len(trail) THEN state ELSE trail[i + 1].before

ColorOf(i) == At(BeforeOf(i), CellOf(i))

Last == Len(trail)

Orthogonal(p) ==
    {q \in Cells : \/ q[1] = p[1] /\ q[2] - p[2] \in {-1, 1}
                   \/ q[2] = p[2] /\ q[1] - p[1] \in {-1, 1}}

IsCentre(p) == p = <<1, 1>>

IsCorner(p) == p[1] # 1 /\ p[2] # 1

IsEdge(p) == ~IsCentre(p) /\ ~IsCorner(p)

GrayEffect(b, a, p) == a = b

WhiteEffect(b, a, p) ==
    \A q \in Cells :
        At(a, q) = IF q \in {p} \cup Orthogonal(p)
                   THEN (IF At(b, q) = "White" THEN "Gray"
                         ELSE IF At(b, q) = "Gray" THEN "White"
                         ELSE At(b, q))
                   ELSE At(b, q)

BlackEffect(b, a, p) ==
    /\ \A k \in 0..2 : At(a, <<p[1], (k + 1) % 3>>) = At(b, <<p[1], k>>)
    /\ \A q \in Cells : q[1] # p[1] => At(a, q) = At(b, q)

RedEffect(b, a, p) ==
    \A q \in Cells :
        At(a, q) = IF At(b, q) = "Black" THEN "Red"
                   ELSE IF At(b, q) = "White" THEN "Black"
                   ELSE At(b, q)

Count(b, p, x) == Cardinality({q \in Orthogonal(p) : At(b, q) = x})

\* the colours attaining the maximum count among the orthogonal neighbours
Winners(b, p) ==
    {x \in Color : /\ Count(b, p, x) > 0
                   /\ \A y \in Color : Count(b, p, y) <= Count(b, p, x)}

OrangeEffect(b, a, p) ==
    /\ \A q \in Cells \ {p} : At(a, q) = At(b, q)
    /\ Cardinality(Winners(b, p)) = 1 => At(a, p) \in Winners(b, p)
    /\ Cardinality(Winners(b, p)) >= 2 => At(a, p) = At(b, p)

\* a is b with the cells p and q exchanged
Swapped(b, a, p, q) ==
    /\ At(a, p) = At(b, q)
    /\ At(a, q) = At(b, p)
    /\ \A o \in Cells \ {p, q} : At(a, o) = At(b, o)

GreenEffect(b, a, p) == Swapped(b, a, p, <<2 - p[1], 2 - p[2]>>)

YellowEffect(b, a, p) ==
    IF p[1] = 2 THEN a = b ELSE Swapped(b, a, p, <<p[1] + 1, p[2]>>)

VioletEffect(b, a, p) ==
    IF p[1] = 0 THEN a = b ELSE Swapped(b, a, p, <<p[1] - 1, p[2]>>)

\* the eight directions clockwise from the top on the board with row 2 on
\* top: N, NE, E, SE, S, SW, W, NW
Compass == << <<1, 0>>, <<1, 1>>, <<0, 1>>, <<-1, 1>>,
             <<-1, 0>>, <<-1, -1>>, <<0, -1>>, <<1, -1>> >>

RingCell(p, j) == <<p[1] + Compass[j][1], p[2] + Compass[j][2]>>

OnBoard(p, j) == RingCell(p, j) \in Cells

Ring(p) == {RingCell(p, j) : j \in {k \in 1..8 : OnBoard(p, k)}}

\* the direction of the nearest neighbour of p on the board counter-clockwise
\* of direction j, stepping over the directions that leave the board
CounterClockwiseOf(p, j) ==
    LET back(d) == ((j - 1 - d + 8) % 8) + 1
        d0 == CHOOSE d \in 1..8 :
                  /\ OnBoard(p, back(d))
                  /\ \A e \in 1..(d - 1) : ~OnBoard(p, back(e))
    IN  back(d0)

PinkEffect(b, a, p) ==
    /\ \A q \in Cells \ Ring(p) : At(a, q) = At(b, q)
    /\ \A j \in 1..8 :
           OnBoard(p, j) =>
               At(a, RingCell(p, j)) = At(b, RingCell(p, CounterClockwiseOf(p, j)))
    /\ Cardinality(Ring(p)) = IF IsCentre(p) THEN 8 ELSE IF IsEdge(p) THEN 5 ELSE 3

RuleEffect(color, b, a, p) ==
    CASE color = "Gray" -> GrayEffect(b, a, p)
      [] color = "White" -> WhiteEffect(b, a, p)
      [] color = "Black" -> BlackEffect(b, a, p)
      [] color = "Red" -> RedEffect(b, a, p)
      [] color = "Orange" -> OrangeEffect(b, a, p)
      [] color = "Green" -> GreenEffect(b, a, p)
      [] color = "Yellow" -> YellowEffect(b, a, p)
      [] color = "Violet" -> VioletEffect(b, a, p)
      [] color = "Pink" -> PinkEffect(b, a, p)
      [] color = "Blue" -> FALSE

\* C11: a press of a Blue tile at (row, col) while the centre holds a colour
\* C other than Blue returns the grid that C's rule makes at (row, col) of
\* the grid before the press; with C = Black the row of the pressed tile is
\* rotated, and the centre row is left alone unless it is that row.
C11_BluePressAppliesCentreRuleAtPressedTile ==
    (Pressed /\ ColorOf(Last) = "Blue" /\ At(BeforeOf(Last), <<1, 1>>) # "Blue") =>
        LET b == BeforeOf(Last)
            p == CellOf(Last)
            centre == At(b, <<1, 1>>)
        IN  /\ RuleEffect(centre, b, state, p)
            /\ centre = "Black" =>
                   /\ \A k \in 0..2 :
                          At(state, <<p[1], (k + 1) % 3>>) = At(b, <<p[1], k>>)
                   /\ p[1] # 1 => \A k \in 0..2 : At(state, <<1, k>>) = At(b, <<1, k>>)

\* a Blue tile outside the centre row was pressed while the centre was Black,
\* and its row changed
C11_Witness ==
    /\ Pressed
    /\ ColorOf(Last) = "Blue"
    /\ At(BeforeOf(Last), <<1, 1>>) = "Black"
    /\ CellOf(Last)[1] # 1
    /\ state # BeforeOf(Last)

\* C12: with a Blue centre, a press of any Blue tile returns the grid it was
\* given; and every press enters apply_color at most twice, the second time
\* never with Blue.
C12_BlueCentreIsNoOpAndOneSubstitution ==
    Pressed =>
        /\ (ColorOf(Last) = "Blue" /\ At(BeforeOf(Last), <<1, 1>>) = "Blue") =>
               state = BeforeOf(Last)
        /\ Len(trail[Last].entered) \in {1, 2}
        /\ trail[Last].entered[1] = ColorOf(Last)
        /\ Len(trail[Last].entered) = 2 => trail[Last].entered[2] # "Blue"

\* a Blue tile away from the centre was pressed while the centre was Blue,
\* after a press that went through one substitution
C12_Witness ==
    /\ Pressed
    /\ ColorOf(Last) = "Blue"
    /\ At(BeforeOf(Last), <<1, 1>>) = "Blue"
    /\ CellOf(Last) # <<1, 1>>
    /\ \E i \in 1..(Last - 1) : Len(trail[i].entered) = 2

\* the last three presses were made in one row at the columns c, c+1, c+2
\* (mod 3), the first of them on a Black tile
ThreeBlackPresses ==
    /\ Pressed
    /\ Last >= 3
    /\ ColorOf(Last - 2) = "Black"
    /\ trail[Last - 1].row = trail[Last - 2].row
    /\ trail[Last].row = trail[Last - 2].row
    /\ trail[Last - 1].col = (trail[Last - 2].col + 1) % 3
    /\ trail[Last].col = (trail[Last - 2].col + 2) % 3

\* C13: a press of a Black tile at (row, c) gives new[row][(k+1) mod 3] =
\* old[row][k] and keeps the other rows; three presses in a row at the columns
\* c, c+1, c+2 (mod 3) each hit the Black tile and give back the first grid.
C13_BlackRotatesRowRightAndThreePressesRestore ==
    /\ (Pressed /\ ColorOf(Last) = "Black") =>
           BlackEffect(BeforeOf(Last), state, CellOf(Last))
    /\ ThreeBlackPresses =>
           /\ ColorOf(Last - 1) = "Black"
           /\ ColorOf(Last) = "Black"
           /\ state = BeforeOf(Last - 2)

\* three such presses were made on a row of three different colours
C13_Witness ==
    /\ ThreeBlackPresses
    /\ Cardinality({At(state, <<trail[Last].row, k>>) : k \in 0..2}) = 3
    /\ BeforeOf(Last) # state
    /\ BeforeOf(Last - 1) # state

\* C14: a press of a White tile turns White into Gray and Gray into White on
\* the tile and its orthogonal neighbours on the board, and changes no other
\* cell; a corner has 2 such neighbours, an edge 3, the centre 4.
C14_WhiteTogglesTileAndOrthogonalNeighbours ==
    (Pressed /\ ColorOf(Last) = "White") =>
        /\ WhiteEffect(BeforeOf(Last), state, CellOf(Last))
        /\ Cardinality(Orthogonal(CellOf(Last))) =
               IF IsCentre(CellOf(Last)) THEN 4
               ELSE IF IsEdge(CellOf(Last)) THEN 3 ELSE 2

\* a White corner tile was pressed with a Gray neighbour and a neighbour of
\* another colour, and White or Gray cells lay outside its neighbourhood
C14_Witness ==
    /\ Pressed
    /\ ColorOf(Last) = "White"
    /\ IsCorner(CellOf(Last))
    /\ \E q \in Orthogonal(CellOf(Last)) : At(BeforeOf(Last), q) = "Gray"
    /\ \E q \in Orthogonal(CellOf(Last)) : At(BeforeOf(Last), q) \notin {"White", "Gray"}
    /\ \E q \in Cells \ ({CellOf(Last)} \cup Orthogonal(CellOf(Last))) :
           At(BeforeOf(Last), q) \in {"White", "Gray"}

\* C15: a press of a Red tile turns every Black tile Red and every White
\* tile Black, nothing else, and every Red tile of the grid gives the same
\* result.
C15_RedRecoloursWholeBoardInOneStep ==
    (Pressed /\ ColorOf(Last) = "Red") =>
        /\ RedEffect(BeforeOf(Last), state, CellOf(Last))
        /\ \A q \in Cells :
               At(BeforeOf(Last), q) = "Red" =>
                   press(BeforeOf(Last), q[1], q[2]) = state

\* a Red tile was pressed on a grid with a second Red tile, a Black tile, a
\* White tile and a tile of a fourth colour
C15_Witness ==
    /\ Pressed
    /\ ColorOf(Last) = "Red"
    /\ \E q \in Cells \ {CellOf(Last)} : At(BeforeOf(Last), q) = "Red"
    /\ \E q \in Cells : At(BeforeOf(Last), q) = "Black"
    /\ \E q \in Cells : At(BeforeOf(Last), q) = "White"
    /\ \E q \in Cells : At(BeforeOf(Last), q) \notin {"Red", "Black", "White"}

\* C16: a press of an Orange tile finds at least one orthogonal neighbour,
\* changes no other cell, gives the tile the colour that alone has the
\* maximum count among those neighbours, and keeps the tile when two or more
\* colours share the maximum.
C16_OrangeTakesUniqueMaximumElseUnchanged ==
    /\ \A p \in Cells : Orthogonal(p) # {}
    /\ (Pressed /\ ColorOf(Last) = "Orange") =>
           OrangeEffect(BeforeOf(Last), state, CellOf(Last))

\* an Orange tile was pressed with two colours sharing the maximum, and an
\* Orange tile was pressed with one colour alone at the maximum and took it
C16_Witness ==
    /\ Pressed
    /\ \E i \in 1..Last :
           /\ ColorOf(i) = "Orange"
           /\ Cardinality(Winners(BeforeOf(i), CellOf(i))) >= 2
    /\ \E i \in 1..Last :
           /\ ColorOf(i) = "Orange"
           /\ Cardinality(Winners(BeforeOf(i), CellOf(i))) = 1
           /\ AfterOf(i) # BeforeOf(i)

\* C17: a press of a Pink tile keeps the tile and every cell that is not a
\* neighbour, and gives each of the 8, 5 or 3 neighbours on the board the
\* colour of the neighbour counter-clockwise of it, across the gap where the
\* ring leaves the board.
C17_PinkRotatesNeighbourRingClockwise ==
    (Pressed /\ ColorOf(Last) = "Pink") =>
        PinkEffect(BeforeOf(Last), state, CellOf(Last))

\* a Pink tile was pressed at the centre and then a Pink tile on an edge or
\* in a corner, each time moving colours
C17_Witness ==
    /\ Pressed
    /\ ColorOf(Last) = "Pink"
    /\ ~IsCentre(CellOf(Last))
    /\ state # BeforeOf(Last)
    /\ \E i \in 1..(Last - 1) :
           /\ ColorOf(i) = "Pink"
           /\ IsCentre(CellOf(i))
           /\ AfterOf(i) # BeforeOf(i)

\* C18: Green exchanges the tile with (2-row, 2-col), Yellow with (row+1,
\* col), Violet with (row-1, col), no other cell changes, and the grid is
\* unchanged for Yellow in row 2, Violet in row 0 and Green at the centre.
C18_SwapRulesExchangeWithOnePartner ==
    /\ (Pressed /\ ColorOf(Last) = "Green") =>
           /\ GreenEffect(BeforeOf(Last), state, CellOf(Last))
           /\ IsCentre(CellOf(Last)) => state = BeforeOf(Last)
    /\ (Pressed /\ ColorOf(Last) = "Yellow") =>
           YellowEffect(BeforeOf(Last), state, CellOf(Last))
    /\ (Pressed /\ ColorOf(Last) = "Violet") =>
           VioletEffect(BeforeOf(Last), state, CellOf(Last))

\* a Green, a Yellow and a Violet tile were pressed, the Green and the Yellow
\* one moving, the Violet one in row 0
C18_Witness ==
    /\ Pressed
    /\ \E i \in 1..Last : ColorOf(i) = "Green" /\ AfterOf(i) # BeforeOf(i)
    /\ \E i \in 1..Last : ColorOf(i) = "Yellow" /\ AfterOf(i) # BeforeOf(i)
    /\ \E i \in 1..Last : ColorOf(i) = "Violet" /\ trail[i].row = 0

\* C19: a press of a Gray tile returns the grid it was given; on the grid of
\* nine Gray tiles every press does.
C19_GrayPressIsIdentity ==
    /\ (Pressed /\ ColorOf(Last) = "Gray") => state = BeforeOf(Last)
    /\ (Pressed /\ BeforeOf(Last) = NoGrid) => state = NoGrid

\* a Gray tile was pressed on a grid of several colours that an earlier press
\* had changed
C19_Witness ==
    /\ Pressed
    /\ ColorOf(Last) = "Gray"
    /\ Cardinality({At(BeforeOf(Last), q) : q \in Cells}) >= 4
    /\ \E i \in 1..(Last - 1) : AfterOf(i) # BeforeOf(i)

(***************************************************************************)
(* Property of the coordinate checks, checked under Spec.                  *)
(***************************************************************************)

\* C20: with row >= 3 or col >= 3, Grid::get, Grid::press, Puzzle::get_tile
\* and Puzzle::press_tile panic, and a press_tile that panicked left the live
\* grid and the corner locks as they were.
C20_InvalidCoordinatesPanicBeforeAnyChange ==
    /\ \A row \in ArgCoords, col \in ArgCoords :
           (row >= 3 \/ col >= 3) =>
               /\ get_panics(row, col)
               /\ press_panics(row, col)
               /\ get_tile_panics(row, col)
               /\ press_tile_panics(row, col)
    /\ (lastOp.op = "press_tile" /\ (lastOp.row >= 3 \/ lastOp.col >= 3)) =>
           /\ pc = "panicked"
           /\ state = prev.state
           /\ corners = prev.corners

\* press_tile panicked on a column past the board, on a puzzle with a locked
\* corner and a grid that earlier presses had changed
C20_Witness ==
    /\ pc = "panicked"
    /\ lastOp.op = "press_tile"
    /\ lastOp.row < 3
    /\ lastOp.col >= 3
    /\ corners # AllGray
    /\ state # original

(***************************************************************************)
(* Property of the decoding of puzzle lines, checked under BatchSpec.      *)
(***************************************************************************)
ColourAlphabet == {"-", "w", "k", "r", "o", "g", "y", "v", "p", "b"}

\* C21: a line is decoded if and only if it has exactly 13 characters, all of
\* the colour alphabet; and a line that fails does not stop the batch: when
\* solve_puzzles has stopped, every line of the input has been handled, in
\* order.
C21_DecodeSucceedsIffThirteenKnownCharacters ==
    /\ \A i \in 1..Len(log) :
           log[i].parsed <=>
               /\ Len(log[i].line) = 13
               /\ \A j \in 1..Len(log[i].line) : log[i].line[j] \in ColourAlphabet
    /\ pc \in {"exit", "panicked"} =>
           /\ Len(log) = Len(stdin.lines)
           /\ \A i \in 1..Len(log) :
                  stdin.lines[i].ok /\ log[i].line = stdin.lines[i].line

(***************************************************************************)
(* Property of the locks in every state of the Puzzle, checked under Spec. *)
(***************************************************************************)

\* C22: in every state, a corner whose lock is not Gray has the tile at its
\* fixed coordinate equal to the lock.
C22_LockedCornerShowsItsLock ==
    \A c \in Corner :
        get_corner(corners, c) # "Gray" => TileAt(state, c) = get_corner(corners, c)

\* a press_tile changed the grid of a puzzle away from its original and two
\* corners are locked after it
C22_Witness ==
    /\ Constructed
    /\ lastOp.op = "press_tile"
    /\ state # prev.state
    /\ state # original
    /\ Cardinality({c \in Corner : get_corner(corners, c) # "Gray"}) >= 2

(***************************************************************************)
(* Property of a puzzle driven along its solution, checked under DriveSpec. *)
(***************************************************************************)

\* the path has been pressed and each of the four corners has been pressed
DriveDone ==
    /\ pc = "driving"
    /\ solution.some
    /\ Len(driven) = Len(solution.path) + 4

\* C23: once the presses of the path returned by solve and then the four
\* corners, in any order, have been pressed on a fresh puzzle, is_solved() is
\* true, and none of these calls has reset the puzzle.
C23_FollowingSolutionThenCornersSolves ==
    DriveDone =>
        /\ is_solved(corners, goals)
        /\ \A i \in 1..Len(driven) : ~driven[i].reset

====
